---- MODULE Spec2Model ----
(***************************************************************************)
(* Model of version_select_and_load.py: the catalog builder, the           *)
(* compatibility evaluator, the module selector and the firmware loader.   *)
(*                                                                         *)
(* A Python str is a sequence of one-character strings, so that split,     *)
(* strip and int are computed and not assumed.  Python None is the value   *)
(* None below (NoneObj where the other values are objects).                *)
(***************************************************************************)
EXTENDS Integers, Sequences, FiniteSets, TLC

VARIABLES
    pc,                 \* position of the running function
    allow_debug,        \* the global set from --allow_debug
    module,             \* the TdxModule passed to the function under study
    seamldr_version,    \* argument of is_compatible_with_seamldr
    seamldr_result,     \* its return value
    version_node,       \* content of MODULE_PATH/version, or Absent
    tdp_result,         \* outcome of is_td_preserving_capable
    modules,            \* the catalog passed to find_newest_tdx_module
    reads,              \* reads[i]: the version node when modules[i] is examined
    newest,             \* outcome of find_newest_tdx_module
    blob_files,         \* the blobs found under joined_files, in glob order
    mapping_file,       \* mapping_file.json, or Unloadable
    catalog,            \* what get_all_tdx_modules returned
    seen,               \* what the precondition checks of the loader read
    ops,                \* operations on the control interface, in order
    now,                \* time.time(), in seconds
    start_time,         \* start_time of the polling loop
    prev_version,       \* prev_version
    curr_version,       \* curr_version
    output,             \* the lines printed by update_tdx_module
    outcome,            \* how the load ended
    exit_status         \* exit status of the process, -1 while it runs

commonVars == <<pc, allow_debug, module>>
seamldrVars == <<seamldr_version, seamldr_result>>
tdpVars == <<version_node, tdp_result>>
selectVars == <<modules, reads, newest>>
catalogVars == <<blob_files, mapping_file, catalog>>
loaderVars ==
    <<seen, ops, now, start_time, prev_version, curr_version, output, outcome,
      exit_status>>
otherVars == <<seamldrVars, tdpVars, selectVars, catalogVars>>

vars ==
    <<commonVars, seamldrVars, tdpVars, selectVars, catalogVars, loaderVars>>

(***************************************************************************)
(* Python values and built-ins                                             *)
(***************************************************************************)
\* None where the other values are strings, and where they are objects
None == <<"None">>
NoneObj == [none |-> TRUE]
NotRun == <<"not run">>

Digits == {"0", "1", "2", "3", "4", "5", "6", "7", "8", "9"}
Whitespace == {" ", "\n"}

DigitVal(c) ==
    CASE c = "0" -> 0 [] c = "1" -> 1 [] c = "2" -> 2 [] c = "3" -> 3
      [] c = "4" -> 4 [] c = "5" -> 5 [] c = "6" -> 6 [] c = "7" -> 7
      [] c = "8" -> 8 [] c = "9" -> 9

\* str.strip(): drop leading and trailing whitespace
RECURSIVE lstrip(_)
lstrip(s) ==
    IF s # <<>> /\ Head(s) \in Whitespace THEN lstrip(Tail(s)) ELSE s

RECURSIVE rstrip(_)
rstrip(s) ==
    IF s # <<>> /\ s[Len(s)] \in Whitespace
    THEN rstrip(SubSeq(s, 1, Len(s) - 1))
    ELSE s

strip(s) == rstrip(lstrip(s))

\* str.split('.'): the list of the pieces between the dots, never empty
RECURSIVE split(_)
split(s) ==
    IF \E i \in 1..Len(s) : s[i] = "."
    THEN LET i == CHOOSE k \in 1..Len(s) :
                      s[k] = "." /\ \A j \in 1..(k - 1) : s[j] # "."
         IN  <<SubSeq(s, 1, i - 1)>> \o split(SubSeq(s, i + 1, Len(s)))
    ELSE <<s>>

\* '.'.join(parts)
RECURSIVE join(_)
join(parts) ==
    IF Len(parts) = 0 THEN <<>>
    ELSE IF Len(parts) = 1 THEN parts[1]
    ELSE parts[1] \o <<".">> \o join(Tail(parts))

\* int(s) raises ValueError unless s is a run of decimal digits (the inputs
\* of the model hold digits, dots, whitespace and the letter x only)
int_raises(s) == Len(s) = 0 \/ \E i \in 1..Len(s) : s[i] \notin Digits

RECURSIVE int(_)
int(s) ==
    IF Len(s) = 0 THEN 0
    ELSE 10 * int(SubSeq(s, 1, Len(s) - 1)) + DigitVal(s[Len(s)])

\* a, b, c = map(int, v.split('.')) raises unless there are exactly three
\* pieces and each is an integer literal
unpack3_raises(v) ==
    \/ Len(split(v)) # 3
    \/ \E k \in 1..Len(split(v)) : int_raises(split(v)[k])

unpack3(v) == <<int(split(v)[1]), int(split(v)[2]), int(split(v)[3])>>

(***************************************************************************)
(* TdxModule                                                               *)
(***************************************************************************)
TdxModule(version, path, CPU_family_model, module_version, seamldr_versions, tdx_feature0, type) ==
    [version |-> version,
     path |-> path,
     supported_CPU_family_model |-> CPU_family_model,
     min_module_version_for_td_preserving |-> module_version,
     min_seamldr_versions |-> seamldr_versions,
     tdx_feature0 |-> tdx_feature0,
     type |-> type]

(***************************************************************************)
(* Compatibility evaluator: seamldr                                        *)
(***************************************************************************)
\* the two nested ifs on one entry of min_seamldr_versions
seamldr_entry_matches_strict(v, cur) ==
    v[1] = cur[1] /\ v[2] = cur[2] /\ v[3] < cur[3]

seamldr_entry_matches(v, cur) ==
    v[1] = cur[1] /\ v[2] = cur[2] /\ v[3] <= cur[3]

\* the for loop from entry i on; an exception raised by an entry is caught
\* by the except clause, which returns False
RECURSIVE seamldr_scan(_, _, _)
seamldr_scan(vs, i, cur) ==
    IF i > Len(vs) THEN FALSE
    ELSE IF unpack3_raises(vs[i]) THEN FALSE
    ELSE IF seamldr_entry_matches(unpack3(vs[i]), cur) THEN TRUE
    ELSE seamldr_scan(vs, i + 1, cur)

is_compatible_with_seamldr(m, sv) ==
    IF unpack3_raises(sv) THEN FALSE
    ELSE seamldr_scan(m.min_seamldr_versions, 1, unpack3(sv))

(***************************************************************************)
(* Platform reads                                                          *)
(***************************************************************************)
\* a sysfs node that cannot be opened or read
Absent == <<"absent">>

\* open(...).read().strip(), None on any exception
get_current_module_version(node) ==
    IF node = Absent THEN None ELSE strip(node)

get_current_seamldr_version(node) ==
    IF node = Absent THEN None ELSE strip(node)

\* cpuid.cpuid(0x1)[0], None on any exception; the read is either the EAX
\* value or NoneObj
get_cpuid_1_eax(cpuid_read) == cpuid_read

(***************************************************************************)
(* Compatibility evaluator: debug gate and TD-preserving capability        *)
(***************************************************************************)
\* A 32-bit unsigned value is kept as its two 16-bit halves.
U32(hi, lo) == [hi |-> hi, lo |-> lo]

\* x & 0xFFFFFFF0
mask_stepping(x) == U32(x.hi, (x.lo \div 16) * 16)

\* module.type & (1 << 31), as a truth value: bit 15 of the high half
is_debug(m) == (m.type.hi \div 32768) % 2 = 1

\* what a call does: return a value, or raise
Return(v) == [raised |-> FALSE, value |-> v]
Raised == [raised |-> TRUE, value |-> FALSE]

\* s.split('.')[2] raises IndexError, int(...) raises ValueError
update_raises(s) == Len(split(s)) < 3 \/ int_raises(split(s)[3])
update_of(s) == int(split(s)[3])
\* '.'.join(s.split('.')[:2])
major_minor_of(s) ==
    join(SubSeq(split(s), 1, IF Len(split(s)) < 2 THEN Len(split(s)) ELSE 2))

\* the returned conjunction
td_version_check_any_line(module_major_minor, current_major_minor, module_update, current_update, min_preserving_update) ==
    /\ module_update >= current_update
    /\ min_preserving_update <= current_update

td_version_check_no_min(module_major_minor, current_major_minor, module_update, current_update, min_preserving_update) ==
    /\ module_major_minor = current_major_minor
    /\ module_update >= current_update

td_version_check(module_major_minor, current_major_minor, module_update, current_update, min_preserving_update) ==
    /\ module_major_minor = current_major_minor
    /\ module_update >= current_update
    /\ min_preserving_update <= current_update

\* dbg is the global allow_debug, node the content of the version node at
\* the time of the call
is_td_preserving_capable(m, dbg, node) ==
    LET current_version == get_current_module_version(node)
    IN  IF is_debug(m) /\ ~dbg THEN Return(FALSE)
        ELSE IF current_version = None \/ current_version = <<>>
        THEN Return(FALSE)
        ELSE IF update_raises(current_version) THEN Raised
        ELSE IF update_raises(m.version) THEN Raised
        ELSE IF update_raises(m.min_module_version_for_td_preserving)
        THEN Raised
        ELSE Return(td_version_check(
                 major_minor_of(m.version),
                 major_minor_of(current_version),
                 update_of(m.version),
                 update_of(current_version),
                 update_of(m.min_module_version_for_td_preserving)))

(***************************************************************************)
(* Compatibility evaluator: seamldr and CPU                                *)
(***************************************************************************)
\* seamldr_node and cpuid_read are what the platform answers during the call
is_compatible(m, seamldr_node, cpuid_read) ==
    LET sv == get_current_seamldr_version(seamldr_node)
        cpuid_1_eax == get_cpuid_1_eax(cpuid_read)
    IN  IF sv = None THEN FALSE
        ELSE IF ~is_compatible_with_seamldr(m, sv) THEN FALSE
        ELSE IF cpuid_1_eax = NoneObj THEN FALSE
        ELSE \E k \in 1..Len(m.supported_CPU_family_model) :
                 m.supported_CPU_family_model[k] = mask_stepping(cpuid_1_eax)

(***************************************************************************)
(* Module selector                                                         *)
(***************************************************************************)
\* find_newest_tdx_module returning None
NoModule == NoneObj

\* [module for module in modules if is_td_preserving_capable(module)]; the
\* version node is read anew for each module
RECURSIVE td_preserving_filter(_, _, _, _)
td_preserving_filter(mods, dbg, nodes, i) ==
    IF i > Len(mods) THEN <<>>
    ELSE IF is_td_preserving_capable(mods[i], dbg, nodes[i]).value
    THEN <<mods[i]>> \o td_preserving_filter(mods, dbg, nodes, i + 1)
    ELSE td_preserving_filter(mods, dbg, nodes, i + 1)

\* the comprehension raises when one of its calls does
filter_raises(mods, dbg, nodes) ==
    \E i \in 1..Len(mods) :
        is_td_preserving_capable(mods[i], dbg, nodes[i]).raised

\* sort(key=lambda m: int(m.version.split('.')[2]), reverse=True): a stable
\* sort; a stays ahead of a later b when its key is not smaller
stays_ahead_ascending(a, b) == update_of(a.version) <= update_of(b.version)

stays_ahead(a, b) == update_of(a.version) >= update_of(b.version)

RECURSIVE sort_insert(_, _)
sort_insert(sorted, m) ==
    IF sorted = <<>> THEN <<m>>
    ELSE IF stays_ahead(Head(sorted), m)
    THEN <<Head(sorted)>> \o sort_insert(Tail(sorted), m)
    ELSE <<m>> \o sorted

RECURSIVE sort_by_update(_)
sort_by_update(mods) ==
    IF mods = <<>> THEN <<>>
    ELSE sort_insert(sort_by_update(SubSeq(mods, 1, Len(mods) - 1)),
                     mods[Len(mods)])

find_newest_tdx_module(mods, dbg, nodes) ==
    IF filter_raises(mods, dbg, nodes) THEN Raised
    ELSE LET td_preserving_modules ==
                 sort_by_update(td_preserving_filter(mods, dbg, nodes, 1))
         IN  IF td_preserving_modules # <<>>
             THEN Return(td_preserving_modules[1])
             ELSE Return(NoModule)

(***************************************************************************)
(* Blob header reader                                                      *)
(***************************************************************************)
\* A blob file: its path (directory, "/", then the tokens of its base name),
\* whether it can be opened, the bytes from offset 0x1000 + 12 on (at most
\* the four that are read) and the bytes from offset 0x1000 + 1024 on.
BlobFile(path, readable, type_bytes, table_bytes) ==
    [path |-> path, readable |-> readable, type_bytes |-> type_bytes,
     table_bytes |-> table_bytes]

\* struct.unpack("<I", b)[0] of four bytes
unpack_u32(b) == U32(b[3] + 256 * b[4], b[1] + 256 * b[2])

\* f.read(4) at byte position pos (from 0) of the table bytes
read4(bytes, pos) ==
    SubSeq(bytes, pos + 1, IF pos + 4 <= Len(bytes) THEN pos + 4 ELSE Len(bytes))

\* the for loop over the entries: a short read raises, and the entries
\* appended before it are what the function returns
RECURSIVE read_entries(_, _, _)
read_entries(bytes, k, num_entries) ==
    IF k >= num_entries THEN <<>>
    ELSE IF Len(read4(bytes, 4 + 4 * k)) # 4 THEN <<>>
    ELSE <<mask_stepping(unpack_u32(read4(bytes, 4 + 4 * k)))>>
             \o read_entries(bytes, k + 1, num_entries)

\* the entry counts of the model's blobs fit the low 16 bits
get_supported_cpu_family_model(blob) ==
    IF ~blob.readable THEN <<>>
    ELSE IF Len(read4(blob.table_bytes, 0)) # 4 THEN <<>>
    ELSE read_entries(blob.table_bytes, 0,
                      unpack_u32(read4(blob.table_bytes, 0)).lo)

\* struct.unpack raises on fewer than four bytes; every exception gives None
get_module_type(blob) ==
    IF ~blob.readable THEN NoneObj
    ELSE IF Len(blob.type_bytes) # 4 THEN NoneObj
    ELSE unpack_u32(blob.type_bytes)

(***************************************************************************)
(* Module catalog builder                                                  *)
(***************************************************************************)
\* JSON values after json.load: a string, an array, or null (None)
JString(s) == [str |-> s]
JArray(l) == [list |-> l]
python_value(j) == IF "str" \in DOMAIN j THEN j.str ELSE j.list

\* a document that cannot be opened or parsed
Unloadable == [unloadable |-> TRUE]

\* dict.get(key): None for a missing key, and for a key holding null
dict_get(release, key) ==
    IF key \in DOMAIN release THEN release[key] ELSE NoneObj

\* release['version'] raises KeyError for a record without the key
releases_info_raises(json_data) ==
    \E i \in 1..Len(json_data) : "version" \notin DOMAIN json_data[i]

\* releases_info.get(version) of the dict comprehension: the last record of
\* the array with that version
releases_info_get(json_data, version) ==
    IF \E i \in 1..Len(json_data) : json_data[i].version = JString(version)
    THEN json_data[CHOOSE i \in 1..Len(json_data) :
                     /\ json_data[i].version = JString(version)
                     /\ \A j \in (i + 1)..Len(json_data) :
                           json_data[j].version # JString(version)]
    ELSE NoneObj

\* os.path.basename
basename(path) == SubSeq(path, 3, Len(path))

\* \d+\.\d+\.\d+ matching the whole of s
matches_version(s) ==
    /\ Len(split(s)) = 3
    /\ \A k \in 1..3 : ~int_raises(split(s)[k])

\* re.search(r"tdx_module_(\d+\.\d+\.\d+)\.blob", name): group 1 of the
\* leftmost match, None without a match
match_spans(name) ==
    { <<i, j>> \in (1..Len(name)) \X (1..Len(name)) :
        /\ i < j
        /\ name[i] = "tdx_module_" /\ name[j] = ".blob"
        /\ matches_version(SubSeq(name, i + 1, j - 1)) }

version_match(name) ==
    IF match_spans(name) = {} THEN None
    ELSE LET ij == CHOOSE a \in match_spans(name) :
                       \A b \in match_spans(name) : a[1] <= b[1]
         IN  SubSeq(name, ij[1] + 1, ij[2] - 1)

\* None in (module_type, min_module_version_for_td_preserving,
\*          min_seamldr_versions, tdx_feature0)
missing_required_metadata_only(module_type, min_module_version, min_seamldr_versions, tdx_feature0) ==
    NoneObj \in {min_module_version, min_seamldr_versions, tdx_feature0}

missing_required(module_type, min_module_version, min_seamldr_versions, tdx_feature0) ==
    NoneObj \in {module_type, min_module_version, min_seamldr_versions, tdx_feature0}

\* the body of the loop over blob_files from blob i on
RECURSIVE scan_blobs(_, _, _)
scan_blobs(blobs, json_data, i) ==
    IF i > Len(blobs) THEN <<>>
    ELSE
      LET blob_file == blobs[i]
          version == version_match(basename(blob_file.path))
          rest == scan_blobs(blobs, json_data, i + 1)
      IN  IF version = None THEN rest
          ELSE
            LET supported == get_supported_cpu_family_model(blob_file)
                module_type == get_module_type(blob_file)
                release_info == releases_info_get(json_data, version)
            IN  IF release_info = NoneObj THEN rest
                ELSE
                  LET min_td == dict_get(release_info,
                                  "min_module_version_for_td_preserving")
                      min_sl == dict_get(release_info, "min_seamldr_versions")
                      feat == dict_get(release_info, "tdx_feature0")
                  IN  IF missing_required(module_type, min_td, min_sl, feat)
                      THEN rest
                      ELSE <<TdxModule(version, blob_file.path, supported,
                                       python_value(min_td),
                                       python_value(min_sl),
                                       python_value(feat),
                                       module_type)>> \o rest

\* the catalog as a list object, or None when the metadata cannot be used
get_all_tdx_modules(blobs, json_data) ==
    IF json_data = Unloadable THEN NoneObj
    ELSE IF releases_info_raises(json_data.tdx_module_releases) THEN NoneObj
    ELSE [list |-> scan_blobs(blobs, json_data.tdx_module_releases, 1)]

(***************************************************************************)
(* Inputs                                                                  *)
(***************************************************************************)
MaxSeamldrList == 2
MaxCatalog == 3
MaxBlobs == 2
MaxReleases == 2

SeamldrEntries ==
    { <<"2", ".", "1", ".", "3">>,
      <<"2", ".", "1", ".", "5">>,
      <<"2", ".", "1", ".", "0", "7">>,
      <<"2", ".", "0", ".", "9">>,
      <<"2", ".", "2", ".", "0">>,
      <<"2", ".", "1">>,
      <<"2", ".", "x", ".", "3">> }

SeamldrCurrent ==
    { <<"2", ".", "1", ".", "5">>,
      <<"2", ".", "0", ".", "1", "0">>,
      <<"2", ".", "1">>,
      <<"2", ".", "1", ".", "5", ".", "0">>,
      <<>> }

SeqsUpTo(S, n) == UNION { [1..k -> S] : k \in 0..n }

V_1_5_10 == <<"1", ".", "5", ".", "1", "0">>
V_1_5_8 == <<"1", ".", "5", ".", "8">>
BlobPath(version) == <<"tdx_module_">> \o version \o <<".blob">>

V_1_5_9 == <<"1", ".", "5", ".", "9">>
V_1_5_12 == <<"1", ".", "5", ".", "1", "2">>
V_1_5_06 == <<"1", ".", "5", ".", "0", "6">>
V_1_5_11 == <<"1", ".", "5", ".", "1", "1">>
V_1_5 == <<"1", ".", "5">>
V_2_0_12 == <<"2", ".", "0", ".", "1", "2">>
V_2_0_1 == <<"2", ".", "0", ".", "1">>
V_2_1_3 == <<"2", ".", "1", ".", "3">>
V_2_1_5 == <<"2", ".", "1", ".", "5">>
V_1_5_0 == <<"1", ".", "5", ".", "0">>
V_1_5_30 == <<"1", ".", "5", ".", "3", "0">>
V_1_5_40 == <<"1", ".", "5", ".", "4", "0">>
V_2_0_0 == <<"2", ".", "0", ".", "0">>
LF == <<"\n">>

\* module types: production, production with a low bit set, 0x80000000,
\* 0x80000005, and 0x40000000 (bit 30 only)
Type_0 == U32(0, 0)
Type_1 == U32(0, 1)
Type_Debug == U32(32768, 0)
Type_Debug5 == U32(32768, 5)
Type_Bit30 == U32(16384, 0)

\* the variables a specification does not use
SeamldrIdle == seamldr_version = <<>> /\ seamldr_result = NotRun
TdpIdle == version_node = Absent /\ tdp_result = NotRun
SelectIdle == modules = <<>> /\ reads = <<>> /\ newest = NotRun
CatalogIdle ==
    blob_files = <<>> /\ mapping_file = Unloadable /\ catalog = NoneObj
Unread == [seamldr |-> NotRun, cpuid |-> NoneObj, version |-> NotRun,
           root |-> FALSE, checked |-> {}]
LoaderIdle ==
    /\ seen = Unread /\ ops = <<>> /\ now = 0 /\ start_time = 0
    /\ prev_version = NotRun /\ curr_version = NotRun
    /\ output = <<>> /\ outcome = "none" /\ exit_status = -1

(***************************************************************************)
(* Specification of is_compatible_with_seamldr                             *)
(***************************************************************************)
InitSeamldr ==
    /\ pc = "call"
    /\ allow_debug = FALSE
    /\ \E vs \in SeqsUpTo(SeamldrEntries, MaxSeamldrList) :
         module = TdxModule(V_1_5_10, BlobPath(V_1_5_10), <<>>, V_1_5_8, vs,
                            <<"0">>, Type_0)
    /\ seamldr_version \in SeamldrCurrent
    /\ seamldr_result = NotRun
    /\ TdpIdle /\ SelectIdle /\ CatalogIdle /\ LoaderIdle

CallSeamldr ==
    /\ pc = "call"
    /\ seamldr_result' = is_compatible_with_seamldr(module, seamldr_version)
    /\ pc' = "done"
    /\ UNCHANGED <<allow_debug, module, seamldr_version, tdpVars, selectVars, catalogVars,
                   loaderVars>>

NextSeamldr == CallSeamldr

SpecSeamldr == InitSeamldr /\ [][NextSeamldr]_vars

(***************************************************************************)
(* Claims about is_compatible_with_seamldr                                 *)
(***************************************************************************)
\* a well-formed dotted triple: digits "." digits "." digits
IsDottedTriple(s) ==
    \E i, j \in 1..Len(s) :
        /\ 1 < i /\ i + 1 < j /\ j < Len(s)
        /\ s[i] = "." /\ s[j] = "."
        /\ \A k \in 1..Len(s) : k \notin {i, j} => s[k] \in Digits

EntryMatches(v, cur) ==
    /\ unpack3(v)[1] = unpack3(cur)[1]
    /\ unpack3(v)[2] = unpack3(cur)[2]
    /\ unpack3(v)[3] <= unpack3(cur)[3]

\* C7 as stated: with all versions well formed the result is true iff some
\* entry has the current major.minor and an update <= the current one; with
\* the current version or any entry malformed the result is false, wherever
\* the malformed entry stands in the list.
C7_AsStated ==
    pc = "done" =>
        LET vs == module.min_seamldr_versions
        IN  IF IsDottedTriple(seamldr_version)
               /\ \A i \in 1..Len(vs) : IsDottedTriple(vs[i])
            THEN seamldr_result =
                    (\E i \in 1..Len(vs) : EntryMatches(vs[i], seamldr_version))
            ELSE seamldr_result = FALSE

\* C7 amended: the result is a boolean (no exception escapes) and is true
\* iff the current version is well formed and some entry matches it with
\* every entry before it well formed; a malformed entry behind the first
\* matching entry is never parsed and does not change the result.
C7_Amended ==
    pc = "done" =>
        LET vs == module.min_seamldr_versions
        IN  /\ seamldr_result \in BOOLEAN
            /\ seamldr_result =
                 (/\ IsDottedTriple(seamldr_version)
                  /\ \E i \in 1..Len(vs) :
                        /\ \A j \in 1..i : IsDottedTriple(vs[j])
                        /\ EntryMatches(vs[i], seamldr_version))

\* a compatible verdict on a list whose second entry is malformed
C7_Witness ==
    /\ pc = "done"
    /\ seamldr_result = TRUE
    /\ \E i \in 1..Len(module.min_seamldr_versions) :
          ~IsDottedTriple(module.min_seamldr_versions[i])

(***************************************************************************)
(* Specification of is_td_preserving_capable                               *)
(***************************************************************************)
TdpVersions == {V_1_5_9, V_1_5_10, V_1_5_12, V_2_0_12}
TdpMinVersions == {V_1_5_8, V_1_5_06, V_1_5_11, V_1_5}
TdpTypes == {Type_0, Type_1, Type_Debug, Type_Debug5, Type_Bit30}
VersionNodes ==
    { V_1_5_10 \o LF, V_1_5_9 \o LF, <<" ">> \o V_2_0_1 \o LF, V_1_5 \o LF,
      LF, Absent }

InitTdp ==
    /\ pc = "call"
    /\ allow_debug \in BOOLEAN
    /\ \E v \in TdpVersions, mv \in TdpMinVersions, t \in TdpTypes :
         module = TdxModule(v, BlobPath(v), <<>>, mv, <<V_2_1_3>>, <<"0">>, t)
    /\ version_node \in VersionNodes
    /\ tdp_result = NotRun
    /\ SeamldrIdle /\ SelectIdle /\ CatalogIdle /\ LoaderIdle

CallTdp ==
    /\ pc = "call"
    /\ tdp_result' = is_td_preserving_capable(module, allow_debug, version_node)
    /\ pc' = "done"
    /\ UNCHANGED <<allow_debug, module, version_node, seamldrVars, selectVars,
                   catalogVars, loaderVars>>

NextTdp == CallTdp

SpecTdp == InitTdp /\ [][NextTdp]_vars

(***************************************************************************)
(* Claims about is_td_preserving_capable                                   *)
(***************************************************************************)
\* the text of a version up to its second dot, and its third component
HasUpdate(s) ==
    \E i, j \in 1..Len(s) :
        /\ i < j /\ s[i] = "." /\ s[j] = "."
        /\ \A k \in 1..(j - 1) : k # i => s[k] # "."
        /\ j < Len(s)
        /\ \A k \in (j + 1)..Len(s) :
              s[k] \in Digits \/ (s[k] = "." /\ k > j + 1)

MajorMinorText(s) ==
    LET j == CHOOSE k \in 1..Len(s) :
                 s[k] = "." /\ Cardinality({h \in 1..k : s[h] = "."}) = 2
    IN  SubSeq(s, 1, j - 1)

UpdateOf(s) == unpack3(s)[3]

\* C6: is_td_preserving_capable returns true exactly when (a) the module is
\* not a debug module or allow_debug is set, (b) the current version is
\* readable, (c) both versions have the same major.minor, (d) the module's
\* update is >= the current update and (e) the update of
\* min_module_version_for_td_preserving is <= the current update; a module
\* of type 0x80000000 is never capable without allow_debug, and an
\* unreadable current version gives false, not an exception.
C6_TdPreservingCapable ==
    pc = "done" =>
        LET cur == strip(version_node)
            min == module.min_module_version_for_td_preserving
        IN  /\ (tdp_result = Return(TRUE)) <=>
                  /\ module.type.hi < 32768 \/ allow_debug
                  /\ version_node # Absent
                  /\ HasUpdate(cur) /\ HasUpdate(module.version)
                  /\ HasUpdate(min)
                  /\ MajorMinorText(module.version) = MajorMinorText(cur)
                  /\ UpdateOf(module.version) >= UpdateOf(cur)
                  /\ UpdateOf(min) <= UpdateOf(cur)
            /\ (module.type = Type_Debug /\ ~allow_debug)
                  => tdp_result = Return(FALSE)
            /\ version_node = Absent => tdp_result = Return(FALSE)

\* a capable verdict whose update comparison needs integers (12 >= 9, 06 <= 9)
C6_Witness ==
    /\ pc = "done"
    /\ tdp_result = Return(TRUE)
    /\ module.version = V_1_5_12
    /\ module.min_module_version_for_td_preserving = V_1_5_06
    /\ strip(version_node) = V_1_5_9

(***************************************************************************)
(* Specification of find_newest_tdx_module                                 *)
(***************************************************************************)
Mod(v, min, t) == TdxModule(v, BlobPath(v), <<>>, min, <<V_2_1_3>>, <<"0">>, t)

SelectModules ==
    { Mod(V_1_5_9, V_1_5_8, Type_0),
      Mod(V_1_5_12, V_1_5_8, Type_0),
      Mod(V_1_5_10, V_1_5_8, Type_0),
      Mod(V_1_5_30, V_1_5_0, Type_0),
      Mod(V_2_0_12, V_2_0_0, Type_0),
      Mod(V_1_5_40, V_1_5_8, Type_Debug) }

SelectNodes == { V_1_5_9 \o LF, V_2_0_1 \o LF, V_1_5 \o LF, Absent }

\* catalogs: every blob is one file, so no record occurs twice
Catalogs ==
    { c \in SeqsUpTo(SelectModules, MaxCatalog) :
        \A i, j \in 1..Len(c) : i # j => c[i] # c[j] }

InitSelect ==
    /\ pc = "call"
    /\ allow_debug \in BOOLEAN
    /\ module = NoModule
    /\ modules \in Catalogs
    /\ reads = <<>>
    /\ newest = NotRun
    /\ SeamldrIdle /\ TdpIdle /\ CatalogIdle /\ LoaderIdle

CallFindNewest ==
    /\ pc = "call"
    /\ \E nodes \in [1..Len(modules) -> SelectNodes] :
         /\ reads' = nodes
         /\ newest' = find_newest_tdx_module(modules, allow_debug, nodes)
    /\ pc' = "done"
    /\ UNCHANGED <<allow_debug, module, modules, seamldrVars, tdpVars, catalogVars,
                   loaderVars>>

NextSelect == CallFindNewest

SpecSelect == InitSelect /\ [][NextSelect]_vars

(***************************************************************************)
(* Claims about find_newest_tdx_module                                     *)
(***************************************************************************)
Capable(i) ==
    is_td_preserving_capable(modules[i], allow_debug, reads[i]) = Return(TRUE)

Triple(v) == unpack3(v)

TripleGeq(a, b) ==
    \/ a[1] > b[1]
    \/ a[1] = b[1] /\ a[2] > b[2]
    \/ a[1] = b[1] /\ a[2] = b[2] /\ a[3] >= b[3]

C10_GreatestTriple ==
    ( /\ pc = "done" /\ ~newest.raised
      /\ newest.value # NoModule
      /\ \A i, j \in 1..Len(modules) :
            get_current_module_version(reads[i])
              = get_current_module_version(reads[j]) ) =>
        LET r == newest.value
            cur == Triple(get_current_module_version(reads[1]))
        IN  /\ Triple(r.version)[1] = cur[1] /\ Triple(r.version)[2] = cur[2]
            /\ \A j \in 1..Len(modules) :
                  Capable(j) =>
                    /\ Triple(modules[j].version)[1] = cur[1]
                    /\ Triple(modules[j].version)[2] = cur[2]
                    /\ TripleGeq(Triple(r.version), Triple(modules[j].version))

\* a catalog that spans two lines: 2.0.12 is returned on a platform running
\* 2.0.1 although 1.5.30 has the larger update
C10_Witness ==
    /\ pc = "done"
    /\ Len(modules) = 3
    /\ \A i \in 1..3 : reads[i] = V_2_0_1 \o LF
    /\ \E i \in 1..3 : modules[i].version = V_1_5_30
    /\ \E i \in 1..3 : modules[i].version = V_1_5_12
    /\ newest.value # NoModule
    /\ newest.value.version = V_2_0_12

(***************************************************************************)
(* Specification of get_all_tdx_modules                                    *)
(***************************************************************************)
Name(v) == <<"tdx_module_">> \o v \o <<".blob">>
InDir(dir, name) == <<dir, "/">> \o name

\* header bytes: type 0, type 0x80000000, a file that ends two bytes into
\* the type field; a table of one entry 0x000C06F1, and a file that ends
\* before the table
TypeBytes_0 == <<0, 0, 0, 0>>
TypeBytes_Debug == <<0, 0, 0, 128>>
TypeBytes_Short == <<0, 0>>
Table_One == <<1, 0, 0, 0, 241, 6, 12, 0>>
Table_None == <<>>

BlobFiles ==
    { BlobFile(InDir("1.5", Name(V_1_5_10)), TRUE, TypeBytes_0, Table_One),
      BlobFile(InDir("1.5", Name(V_1_5_12)), TRUE, TypeBytes_Debug, Table_One),
      BlobFile(InDir("1.5", Name(V_1_5_12)), TRUE, TypeBytes_0, Table_None),
      BlobFile(InDir("1.5", Name(V_1_5_10)), TRUE, TypeBytes_Short, Table_None),
      BlobFile(InDir("1.5", Name(V_1_5)), TRUE, TypeBytes_0, Table_One),
      BlobFile(InDir("2.0", Name(V_2_0_12)), FALSE, <<>>, <<>>) }

FullRelease(v) ==
    [version |-> JString(v),
     min_module_version_for_td_preserving |-> JString(V_1_5_8),
     min_seamldr_versions |-> JArray(<<V_2_1_3>>),
     tdx_feature0 |-> JString(<<"0">>)]

\* release records: complete ones, one without tdx_feature0, one whose
\* min_seamldr_versions is null, one without a version
Releases ==
    { FullRelease(V_1_5_10),
      FullRelease(V_1_5_12),
      FullRelease(V_2_0_12),
      [version |-> JString(V_1_5_12),
       min_module_version_for_td_preserving |-> JString(V_1_5_8),
       min_seamldr_versions |-> JArray(<<V_2_1_3>>)],
      [version |-> JString(V_1_5_10),
       min_module_version_for_td_preserving |-> JString(V_1_5_8),
       min_seamldr_versions |-> NoneObj,
       tdx_feature0 |-> JString(<<"0">>)],
      [min_module_version_for_td_preserving |-> JString(V_1_5_8)] }

\* metadata documents: version is the key of a release, so no two records
\* of a document carry the same version
MappingFiles ==
    {Unloadable} \cup
    { [tdx_module_releases |-> rs] : rs \in
        { r \in SeqsUpTo(Releases, MaxReleases) :
            \A i, j \in 1..Len(r) :
                (i # j /\ "version" \in DOMAIN r[i] /\ "version" \in DOMAIN r[j])
                    => r[i].version # r[j].version } }

InitCatalog ==
    /\ pc = "call"
    /\ allow_debug = FALSE
    /\ module = NoModule
    /\ blob_files \in SeqsUpTo(BlobFiles, MaxBlobs)
    /\ mapping_file \in MappingFiles
    /\ catalog = NoneObj
    /\ SeamldrIdle /\ TdpIdle /\ SelectIdle /\ LoaderIdle

CallGetAll ==
    /\ pc = "call"
    /\ catalog' = get_all_tdx_modules(blob_files, mapping_file)
    /\ pc' = "done"
    /\ UNCHANGED <<allow_debug, module, blob_files, mapping_file, seamldrVars,
                   tdpVars, selectVars, loaderVars>>

NextCatalog == CallGetAll

SpecCatalog == InitCatalog /\ [][NextCatalog]_vars

(***************************************************************************)
(* Claims about get_all_tdx_modules                                        *)
(***************************************************************************)
\* a file name tdx_module_<major.minor.update>.blob, and its version
CarriedVersion(name) == SubSeq(name, 2, Len(name) - 1)

CarriesVersion(name) ==
    /\ Len(name) >= 2
    /\ name[1] = "tdx_module_" /\ name[Len(name)] = ".blob"
    /\ IsDottedTriple(CarriedVersion(name))

FileName(path) == SubSeq(path, 3, Len(path))

Supplies(release, key) == key \in DOMAIN release /\ release[key] # NoneObj

\* conditions (1), (2) and (3) of the claim for one blob
Catalogued(blob, releases) ==
    /\ CarriesVersion(FileName(blob.path))
    /\ blob.readable /\ Len(blob.type_bytes) = 4
    /\ \E i \in 1..Len(releases) :
              /\ "version" \in DOMAIN releases[i]
              /\ releases[i].version
                    = JString(CarriedVersion(FileName(blob.path)))
              /\ Supplies(releases[i], "min_module_version_for_td_preserving")
              /\ Supplies(releases[i], "min_seamldr_versions")
              /\ Supplies(releases[i], "tdx_feature0")

BuildFails ==
    \/ mapping_file = Unloadable
    \/ \E i \in 1..Len(mapping_file.tdx_module_releases) :
          "version" \notin DOMAIN mapping_file.tdx_module_releases[i]

\* the blobs that meet the three conditions, in discovery order
RECURSIVE Kept(_, _)
Kept(blobs, releases) ==
    IF blobs = <<>> THEN <<>>
    ELSE IF Catalogued(Head(blobs), releases)
    THEN <<Head(blobs).path>> \o Kept(Tail(blobs), releases)
    ELSE Kept(Tail(blobs), releases)

timeout == 10
sleep_seconds == 1
MaxReadDelay == 1
MaxOversleep == 0

CpuEax == U32(12, 1777)
CpuModel == mask_stepping(CpuEax)

LoaderModules ==
    { TdxModule(V_1_5_12, InDir("1.5", Name(V_1_5_12)), <<CpuModel>>, V_1_5_8,
                <<V_2_1_3>>, <<"0">>, Type_0),
      TdxModule(V_1_5_40, InDir("1.5", Name(V_1_5_40)), <<CpuModel>>, V_1_5_8,
                <<V_2_1_3>>, <<"0">>, Type_Debug),
      TdxModule(V_1_5_10, InDir("1.5", Name(V_1_5_10)), <<>>, V_1_5_8,
                <<V_2_1_3>>, <<"0">>, Type_0),
      NoModule }

LoaderSeamldrNodes == { V_2_1_5 \o LF, V_2_0_1 \o LF, Absent }
CpuidReads == { CpuEax, U32(12, 1793), NoneObj }
LoaderVersionNodes == { V_1_5_9 \o LF, V_2_0_1 \o LF, V_1_5 \o LF, Absent }
\* the version node before the load and after it
BeforeNodes == { V_1_5_9 \o LF, Absent }
AfterNodes == { V_1_5_12 \o LF, V_1_5_9 \o LF, Absent }
Idle == <<"i", "d", "l", "e">>
StatusNodes == { Idle \o LF, <<"b", "u", "s", "y">> \o LF }
ErrorNodes == { LF, <<>>, <<" ", "E", " ", "7">> \o LF, <<"x">> }

\* one operation on a node of FIRMWARE_PATH: the bytes written or read,
\* whether the open, write or read went through (it raised otherwise), and
\* the time at which it ended
Op(op, node, data, ok, at) ==
    [op |-> op, node |-> node, data |-> data, ok |-> ok, at |-> at]

\* print(...)
Say(line) == output' = Append(output, line)

\* sys.exit(status), an exception that leaves main (status 1), or main
\* returning after update_tdx_module (status 0)
Finish(how, status) ==
    /\ pc' = "done"
    /\ outcome' = how
    /\ exit_status' = status

Init ==
    /\ pc = "entry"
    /\ allow_debug \in BOOLEAN
    /\ module \in LoaderModules
    /\ seen = Unread /\ ops = <<>> /\ now = 0 /\ start_time = 0
    /\ prev_version = NotRun /\ curr_version = NotRun
    /\ output = <<>> /\ outcome = "none" /\ exit_status = -1
    /\ SeamldrIdle /\ TdpIdle /\ SelectIdle /\ CatalogIdle

\* if module is None or module.path is None
UpdEntry ==
    /\ pc = "entry"
    /\ IF module = NoModule
       THEN /\ Say(<<"No Intel TDX module found to update.">>)
            /\ Finish("Rejected", 0)
       ELSE /\ pc' = "is_compatible"
            /\ UNCHANGED <<output, outcome, exit_status>>
    /\ UNCHANGED <<allow_debug, module, seen, ops, now, start_time,
                   prev_version, curr_version, otherVars>>

\* if not is_compatible(module)
UpdIsCompatible ==
    /\ pc = "is_compatible"
    /\ \E sn \in LoaderSeamldrNodes, eax \in CpuidReads :
         /\ seen' = [seen EXCEPT !.seamldr = sn, !.cpuid = eax,
                                 !.checked = @ \cup {"is_compatible"}]
         /\ IF is_compatible(module, sn, eax)
            THEN /\ pc' = "is_debug"
                 /\ UNCHANGED <<output, outcome, exit_status>>
            ELSE /\ Say(<<"incompatible module">> \o module.version)
                 /\ Finish("Rejected", 0)
    /\ UNCHANGED <<allow_debug, module, ops, now, start_time, prev_version,
                   curr_version, otherVars>>

\* if is_debug(module) and not allow_debug
UpdDebugGate ==
    /\ pc = "is_debug"
    /\ seen' = [seen EXCEPT !.checked = @ \cup {"is_debug"}]
    /\ IF is_debug(module) /\ ~allow_debug
       THEN /\ Say(<<"Cannot load debug module. Try --allow_debug">>)
            /\ Finish("Rejected", 0)
       ELSE /\ pc' = "is_td_preserving_capable"
            /\ UNCHANGED <<output, outcome, exit_status>>
    /\ UNCHANGED <<allow_debug, module, ops, now, start_time, prev_version,
                   curr_version, otherVars>>

\* if not is_td_preserving_capable(module); an exception of the call is
\* outside the try block and ends the process with a traceback
UpdTdPreservingUnchecked ==
    /\ pc = "is_td_preserving_capable"
    /\ \E vn \in LoaderVersionNodes :
         seen' = [seen EXCEPT !.version = vn,
                              !.checked = @ \cup {"is_td_preserving_capable"}]
    /\ pc' = "exists"
    /\ UNCHANGED <<output, outcome, exit_status>>
    /\ UNCHANGED <<allow_debug, module, ops, now, start_time, prev_version,
                   curr_version, otherVars>>

UpdTdPreserving ==
    /\ pc = "is_td_preserving_capable"
    /\ \E vn \in LoaderVersionNodes :
         LET r == is_td_preserving_capable(module, allow_debug, vn)
         IN  /\ seen' = [seen EXCEPT !.version = vn,
                            !.checked = @ \cup {"is_td_preserving_capable"}]
             /\ IF r.raised
                THEN /\ Finish("Crashed", 1)
                     /\ UNCHANGED output
                ELSE IF r.value
                THEN /\ pc' = "exists"
                     /\ UNCHANGED <<output, outcome, exit_status>>
                ELSE /\ Say(<<"not td_preserving-capable">> \o module.version)
                     /\ Finish("Rejected", 0)
    /\ UNCHANGED <<allow_debug, module, ops, now, start_time, prev_version,
                   curr_version, otherVars>>

\* if not os.path.exists(FIRMWARE_PATH): sys.exit(1)
UpdControlRoot ==
    /\ pc = "exists"
    /\ \E exists \in BOOLEAN :
         /\ seen' = [seen EXCEPT !.root = exists,
                                 !.checked = @ \cup {"exists"}]
         /\ IF exists
            THEN /\ pc' = "prev_version"
                 /\ UNCHANGED <<output, outcome, exit_status>>
            ELSE /\ Say(<<"Error: FIRMWARE_PATH does not exist.">>)
                 /\ Finish("NoControlRoot", 1)
    /\ UNCHANGED <<allow_debug, module, ops, now, start_time, prev_version,
                   curr_version, otherVars>>

\* prev_version = get_current_module_version(); print("Install module ...")
UpdPrevVersion ==
    /\ pc = "prev_version"
    /\ \E vn \in BeforeNodes :
         prev_version' = get_current_module_version(vn)
    /\ Say(<<"Install module">> \o module.path)
    /\ pc' = "loading_1"
    /\ UNCHANGED <<allow_debug, module, seen, ops, now, start_time,
                   curr_version, outcome, exit_status, otherVars>>

\* except Exception: print("Error during installation: ..."), after which
\* update_tdx_module and main return
CaughtException ==
    /\ Say(<<"Error during installation">>)
    /\ Finish("Error", 0)

\* with open(.../loading, "w") as f: f.write("1")
UpdWriteLoading1SkipData ==
    /\ pc = "loading_1"
    /\ \E ok \in BOOLEAN :
         /\ ops' = Append(ops, Op("write", "loading", <<"1">>, ok, now))
         /\ IF ok
            THEN /\ pc' = "loading_0"
                 /\ UNCHANGED <<output, outcome, exit_status>>
            ELSE CaughtException
    /\ UNCHANGED <<allow_debug, module, seen, now, start_time, prev_version,
                   curr_version, otherVars>>

UpdWriteLoading1 ==
    /\ pc = "loading_1"
    /\ \E ok \in BOOLEAN :
         /\ ops' = Append(ops, Op("write", "loading", <<"1">>, ok, now))
         /\ IF ok
            THEN /\ pc' = "data"
                 /\ UNCHANGED <<output, outcome, exit_status>>
            ELSE CaughtException
    /\ UNCHANGED <<allow_debug, module, seen, now, start_time, prev_version,
                   curr_version, otherVars>>

\* with open(.../data, "wb") as f: with open(module.path, "rb") as blob:
\* f.write(blob.read()).  The content of the blob is named by its path.
\* When the blob cannot be read the data node has been opened and nothing
\* is written to it.
UpdWriteData ==
    /\ pc = "data"
    /\ \E blob_readable \in BOOLEAN, ok \in BOOLEAN :
         /\ ops' = IF blob_readable
                   THEN Append(ops, Op("write", "data", module.path, ok, now))
                   ELSE Append(ops, Op("open", "data", <<>>, FALSE, now))
         /\ IF blob_readable /\ ok
            THEN /\ pc' = "loading_0"
                 /\ UNCHANGED <<output, outcome, exit_status>>
            ELSE CaughtException
    /\ UNCHANGED <<allow_debug, module, seen, now, start_time, prev_version,
                   curr_version, otherVars>>

\* with open(.../loading, "w") as f: f.write("0"); timeout = 10;
\* start_time = time.time()
UpdWriteLoading0 ==
    /\ pc = "loading_0"
    /\ \E ok \in BOOLEAN :
         /\ ops' = Append(ops, Op("write", "loading", <<"0">>, ok, now))
         /\ IF ok
            THEN /\ pc' = "status"
                 /\ start_time' = now
                 /\ UNCHANGED <<output, outcome, exit_status>>
            ELSE /\ CaughtException
                 /\ UNCHANGED start_time
    /\ UNCHANGED <<allow_debug, module, seen, now, prev_version, curr_version,
                   otherVars>>

\* if time.time() - start_time > timeout
timed_out_at_limit(elapsed) == elapsed >= timeout

timed_out(elapsed) == elapsed > timeout

\* one turn of the while loop up to the sleep: read and strip the status,
\* break on "idle", else check the timeout.  The read takes up to
\* MaxReadDelay seconds.
UpdReadStatus ==
    /\ pc = "status"
    /\ \E d \in 0..MaxReadDelay, raw \in StatusNodes \cup {Absent} :
         /\ now' = now + d
         /\ IF raw = Absent
            THEN /\ ops' = Append(ops, Op("read", "status", <<>>, FALSE, now + d))
                 /\ CaughtException
            ELSE /\ ops' = Append(ops, Op("read", "status", raw, TRUE, now + d))
                 /\ IF strip(raw) = Idle
                    THEN /\ pc' = "error"
                         /\ UNCHANGED <<output, outcome, exit_status>>
                    ELSE IF timed_out(now' - start_time)
                    THEN /\ Say(<<"Error: Timeout while waiting for status to become 'idle'">>)
                         /\ Finish("TimedOut", 1)
                    ELSE /\ pc' = "sleep"
                         /\ UNCHANGED <<output, outcome, exit_status>>
    /\ UNCHANGED <<allow_debug, module, seen, start_time, prev_version,
                   curr_version, otherVars>>

\* time.sleep(1): at least one second
UpdSleep ==
    /\ pc = "sleep"
    /\ \E late \in 0..MaxOversleep : now' = now + sleep_seconds + late
    /\ pc' = "status"
    /\ UNCHANGED <<allow_debug, module, seen, ops, start_time, prev_version,
                   curr_version, output, outcome, exit_status, otherVars>>

\* error = f.read().strip()
error_text_raw(raw) == raw

error_text(raw) == strip(raw)

\* with open(.../error, "r") as f: ...; if error: print, sys.exit(1)
UpdReadError ==
    /\ pc = "error"
    /\ \E raw \in ErrorNodes \cup {Absent} :
         IF raw = Absent
         THEN /\ ops' = Append(ops, Op("read", "error", <<>>, FALSE, now))
              /\ CaughtException
         ELSE /\ ops' = Append(ops, Op("read", "error", raw, TRUE, now))
              /\ IF error_text(raw) # <<>>
                 THEN /\ Say(<<"Firmware update failed">> \o error_text(raw))
                      /\ Finish("Failed", 1)
                 ELSE /\ pc' = "curr_version"
                      /\ UNCHANGED <<output, outcome, exit_status>>
    /\ UNCHANGED <<allow_debug, module, seen, now, start_time, prev_version,
                   curr_version, otherVars>>

\* curr_version = get_current_module_version(); print("Upgrade ...")
UpdCurrVersion ==
    /\ pc = "curr_version"
    /\ \E vn \in AfterNodes :
         /\ curr_version' = get_current_module_version(vn)
         /\ Say(<<"Upgrade Intel TDX module from">> \o prev_version
                   \o <<"to">> \o get_current_module_version(vn))
    /\ Finish("Succeeded", 0)
    /\ UNCHANGED <<allow_debug, module, seen, ops, now, start_time,
                   prev_version, otherVars>>

Next ==
    \/ UpdEntry
    \/ UpdIsCompatible
    \/ UpdDebugGate
    \/ UpdTdPreserving
    \/ UpdControlRoot
    \/ UpdPrevVersion
    \/ UpdWriteLoading1
    \/ UpdWriteData
    \/ UpdWriteLoading0
    \/ UpdReadStatus
    \/ UpdSleep
    \/ UpdReadError
    \/ UpdCurrVersion

Spec == Init /\ [][Next]_vars

(***************************************************************************)
(* Claims about update_tdx_module                                          *)
(***************************************************************************)
IsWrite(i, node) == ops[i].op = "write" /\ ops[i].node = node
IsRead(i, node) == ops[i].op = "read" /\ ops[i].node = node
IsIdleRead(i) == IsRead(i, "status") /\ ops[i].ok /\ ops[i].data \in {Idle \o LF}
IsBusyRead(i) == IsRead(i, "status") /\ ops[i].ok /\ ops[i].data \notin {Idle \o LF}
Elapsed(i) == ops[i].at - start_time
Trimmed(raw) == rstrip(lstrip(raw))
ReportsUpgrade ==
    \E k \in 1..Len(output) : output[k][1] = "Upgrade Intel TDX module from"

\* C1: an operation on the control interface happens only after
\* is_compatible, the debug gate, is_td_preserving_capable and the
\* existence of the control root have all been checked and held on what
\* the platform answered; a rejected candidate leaves the interface
\* untouched.
C1_PreconditionsBeforeIO ==
    /\ ops # <<>> =>
          /\ module # NoModule
          /\ seen.checked = {"is_compatible", "is_debug",
                             "is_td_preserving_capable", "exists"}
          /\ is_compatible(module, seen.seamldr, seen.cpuid)
          /\ module.type.hi < 32768 \/ allow_debug
          /\ is_td_preserving_capable(module, allow_debug, seen.version)
                = Return(TRUE)
          /\ seen.root
    /\ (pc = "done" /\ outcome \in {"Rejected", "NoControlRoot", "Crashed"})
          => ops = <<>>

\* a debug module loaded under --allow_debug, all checks passed
C1_Witness ==
    /\ Len(ops) >= 3
    /\ module.type = Type_Debug
    /\ allow_debug

\* C2: the operations are, in this order, write "1" to loading, one write of
\* the whole blob to data, write "0" to loading, one or more reads of
\* status, and a read of error only right after a status read that gave
\* idle; an operation follows only an operation that went through, and a
\* load that ends Succeeded, Failed or TimedOut has skipped none.
C2_OperationOrder ==
    /\ \A i \in 1..Len(ops) :
          /\ i = 1 => IsWrite(i, "loading") /\ ops[i].data = <<"1">>
          /\ i = 2 => /\ ops[i].node = "data"
                      /\ ops[i].ok => IsWrite(i, "data") /\ ops[i].data = module.path
          /\ i = 3 => IsWrite(i, "loading") /\ ops[i].data = <<"0">>
          /\ i = 4 => IsRead(i, "status")
          /\ i > 4 => \/ IsRead(i, "status") /\ IsBusyRead(i - 1)
                      \/ IsRead(i, "error") /\ IsIdleRead(i - 1)
          /\ i > 1 => ops[i - 1].ok
          /\ i < Len(ops) => ops[i].at <= ops[i + 1].at
    /\ (pc = "done" /\ outcome \in {"Succeeded", "Failed"})
          => Len(ops) >= 5 /\ IsRead(Len(ops), "error")
    /\ (pc = "done" /\ outcome = "TimedOut")
          => Len(ops) >= 4 /\ IsBusyRead(Len(ops))

\* a load that ended Succeeded after three reads of status
C2_Witness ==
    /\ pc = "done"
    /\ outcome = "Succeeded"
    /\ Len(ops) = 7

C4_ErrorNode ==
    /\ Cardinality({i \in 1..Len(ops) : ops[i].node = "error"}) <= 1
    /\ \A i \in 1..Len(ops) :
          (IsIdleRead(i) /\ pc = "done") =>
              /\ Len(ops) = i + 1 /\ IsRead(i + 1, "error")
              /\ (ops[i + 1].ok /\ Trimmed(ops[i + 1].data) # <<>>) =>
                    /\ outcome = "Failed" /\ exit_status = 1
                    /\ output[Len(output)]
                          = <<"Firmware update failed">> \o Trimmed(ops[i + 1].data)
                    /\ curr_version = NotRun /\ ~ReportsUpgrade
              /\ (ops[i + 1].ok /\ Trimmed(ops[i + 1].data) = <<>>) =>
                    /\ outcome = "Succeeded"
                    /\ curr_version # NotRun
                    /\ output[Len(output)]
                          = <<"Upgrade Intel TDX module from">> \o prev_version
                              \o <<"to">> \o curr_version
    /\ outcome = "Failed" =>
          IsRead(Len(ops), "error") /\ Trimmed(ops[Len(ops)].data) # <<>>

\* a load that failed on an error node whose content needs trimming
C4_Witness ==
    /\ pc = "done"
    /\ outcome = "Failed"
    /\ ops[Len(ops)].data = <<" ", "E", " ", "7">> \o LF
    /\ output[Len(output)] = <<"Firmware update failed", "E", " ", "7">>

\* C5 as stated: a load that has written "1" ends Succeeded, Failed or
\* TimedOut, also when an operation on a control node fails; a protocol
\* failure ends the process with a non-zero exit status, and a load ends
\* with exit status 0 only when it Succeeded.
C5_AsStated ==
    /\ (pc = "done" /\ ops # <<>> /\ ops[1].ok) =>
          /\ outcome \in {"Succeeded", "Failed", "TimedOut"}
          /\ exit_status = 0 => outcome = "Succeeded"
    /\ (pc = "done" /\ outcome \in {"NoControlRoot", "TimedOut", "Failed"})
          => exit_status # 0

====
